---- MODULE Spec2Model ----
(***************************************************************************)
(* The DataStructure trait of the Liskov-substitution demonstration and    *)
(* its conforming implementations (Stack, Queue, PriorityQueue, Deque),    *)
(* src/rust/liskov-substitution/lsp_correct_demonstration.rs.              *)
(*                                                                         *)
(* A container is a record [kind, items] (a Deque also has mode).  Every   *)
(* stored i32 is paired with the ordinal of the add call that stored it:   *)
(* an element is [val |-> the i32, id |-> ordinal].  The code reads and    *)
(* compares val only; id is bookkeeping that lets the properties say       *)
(* which added element an operation selected.                              *)
(***************************************************************************)
EXTENDS Integers, Sequences, FiniteSets, Bags, TLC

\* Bound on the number of add calls in one behaviour.
MaxAdds == 4

\* Bound on the number of add calls on each container of a pair.
MaxPairAdds == 3

\* Bound on the length of the add sequences that fill a container before a
\* routine is run on it.
MaxFill == 3

\* Bound on the count argument of transfer_elements.
MaxCount == 4

\* demonstrate_transfer fills its source with 1..=5.
DemoLen == 5

\* Bound on the number of add calls on a structure of the violation file.
MaxVAdds == 5

\* The i32 arguments handed to add on a structure of the violation file.
ViolationValues == {10, 20}

\* Bound on the number of add calls on a RestrictiveStructure.
MaxRAdds == 3

\* The i32 arguments handed to add on a RestrictiveStructure: the values on
\* both sides of the two limits its add tests.
RestrictiveValues == {-1, 0, 100, 101}

\* The i32 arguments handed to add (the ones process_data_structure uses).
Values == {10, 20, 30}

VARIABLES
    ds,           \* the container under test
    call,         \* the last trait call made on ds: [op, ret] (add: also arg)
    prev,         \* the trait call made before it
    pre,          \* ds as it was when the last call was made
    added,        \* history: the values passed to add, in call order
    removedVals,  \* history: bag of the values successful removes returned
    removedIds,   \* history: ordinals of the elements that have left items
    pair,         \* two containers of one variant, called independently
    xfer,         \* the frame of a transfer_elements call
    drain,        \* the frame of a count_elements, sum_elements or
                  \* reverse_data_structure call
    svc           \* the last create_user call on a CorrectUserService

single == <<ds, call, prev, pre, added, removedVals, removedIds>>

vars == <<ds, call, prev, pre, added, removedVals, removedIds, pair, xfer, drain,
         svc>>

\* The value of a variable in the specifications that do not use it.
Unused == [pc |-> "unused"]

----------------------------------------------------------------------------
(* Result<i32, String>, Option<T>, (), usize, bool                         *)

Ok(v) == [tag |-> "Ok", val |-> v]
Err(m) == [tag |-> "Err", msg |-> m]
Some(x) == [tag |-> "Some", val |-> x]
None == [tag |-> "None"]
Unit == [tag |-> "Unit"]
Usize(n) == [tag |-> "usize", val |-> n]
Bool(b) == [tag |-> "bool", val |-> b]
\* An out-of-bounds Vec index or Vec::remove aborts the program.
Panic == [tag |-> "Panic"]

\* Option<&i32>::copied().ok_or_else(|| msg) and Option<i32>::ok_or_else
ok_or_else(opt, msg) == IF opt.tag = "Some" THEN Ok(opt.val.val) ELSE Err(msg)

----------------------------------------------------------------------------
(* Vec<i32>                                                                *)

vec_push(v, e) == Append(v, e)

vec_pop(v) ==
    IF Len(v) = 0
    THEN [vec |-> v, out |-> None]
    ELSE [vec |-> SubSeq(v, 1, Len(v) - 1), out |-> Some(v[Len(v)])]

\* Vec::remove(index), index counted from 0; panics when index >= len.
vec_remove(v, index) ==
    IF index >= Len(v)
    THEN [vec |-> v, out |-> Panic]
    ELSE [vec |-> SubSeq(v, 1, index) \o SubSeq(v, index + 2, Len(v)),
          out |-> v[index + 1]]

vec_first(v) == IF Len(v) = 0 THEN None ELSE Some(v[1])

vec_last(v) == IF Len(v) = 0 THEN None ELSE Some(v[Len(v)])

\* v[index], index counted from 0; panics when index >= len.
vec_index(v, index) ==
    IF index < 0 \/ index >= Len(v) THEN Panic ELSE v[index + 1]

\* Ok(x) around an expression x that may have panicked while evaluated.
ok_of(x) == IF x = Panic THEN Panic ELSE Ok(x.val)

\* e placed behind every element of the sorted s that is not greater.
sort_insert(s, e) ==
    LET k == Cardinality({i \in 1..Len(s) : s[i].val <= e.val})
    IN  SubSeq(s, 1, k) \o <<e>> \o SubSeq(s, k + 1, Len(s))

\* slice::sort: ascending by value, stable.
RECURSIVE vec_sort(_)
vec_sort(v) ==
    IF Len(v) = 0
    THEN v
    ELSE sort_insert(vec_sort(SubSeq(v, 1, Len(v) - 1)), v[Len(v)])

----------------------------------------------------------------------------
(* trait DataStructure and its implementations.  add yields the new self;  *)
(* remove yields [self, ret]; peek and size take &self and yield ret.      *)

Stack_new == [kind |-> "Stack", items |-> <<>>]

\* Stack_add with a capacity: the push is skipped once two elements are held.
Mut_Stack_add_bounded(self, element) ==
    IF Len(self.items) >= 2
    THEN self
    ELSE [self EXCEPT !.items = vec_push(self.items, element)]

Stack_add(self, element) == [self EXCEPT !.items = vec_push(self.items, element)]

\* Stack_remove taking the front element.
Mut_Stack_remove_front(self) ==
    IF Len(self.items) = 0
    THEN [self |-> self, ret |-> Err("Stack is empty")]
    ELSE LET r == vec_remove(self.items, 0)
         IN  [self |-> [self EXCEPT !.items = r.vec], ret |-> ok_of(r.out)]

Stack_remove(self) ==
    LET p == vec_pop(self.items)
    IN  [self |-> [self EXCEPT !.items = p.vec],
         ret  |-> ok_or_else(p.out, "Stack is empty")]

\* Stack_peek reading first() instead of last().
Mut_Stack_peek_first(self) == ok_or_else(vec_first(self.items), "Stack is empty")

Stack_peek(self) == ok_or_else(vec_last(self.items), "Stack is empty")

Stack_size(self) == Len(self.items)

Queue_new == [kind |-> "Queue", items |-> <<>>]

Queue_add(self, element) == [self EXCEPT !.items = vec_push(self.items, element)]

\* Queue_remove reading items[0] without taking it out.
Mut_Queue_remove_keep(self) ==
    IF Len(self.items) = 0
    THEN [self |-> self, ret |-> Err("Queue is empty")]
    ELSE [self |-> self, ret |-> ok_of(vec_index(self.items, 0))]

\* Queue_remove without the emptiness test.
Mut_Queue_remove_unchecked(self) ==
    LET r == vec_remove(self.items, 0)
    IN  [self |-> [self EXCEPT !.items = r.vec], ret |-> ok_of(r.out)]

Queue_remove(self) ==
    IF Len(self.items) = 0
    THEN [self |-> self, ret |-> Err("Queue is empty")]
    ELSE LET r == vec_remove(self.items, 0)
         IN  [self |-> [self EXCEPT !.items = r.vec], ret |-> ok_of(r.out)]

\* Queue_peek reading last() instead of first().
Mut_Queue_peek_last(self) == ok_or_else(vec_last(self.items), "Queue is empty")

Queue_peek(self) == ok_or_else(vec_first(self.items), "Queue is empty")

Queue_size(self) == Len(self.items)

PriorityQueue_new == [kind |-> "PriorityQueue", items |-> <<>>]

\* Vec::dedup: consecutive equal values collapse to the first of them.
vec_dedup(v) ==
    LET keep == {i \in 1..Len(v) : i = 1 \/ v[i].val # v[i - 1].val}
        nth(k) == CHOOSE i \in keep : Cardinality({j \in keep : j <= i}) = k
    IN  [k \in 1..Cardinality(keep) |-> v[nth(k)]]

\* PriorityQueue_add with sort() followed by dedup().
Mut_PriorityQueue_add_dedup(self, element) ==
    [self EXCEPT !.items = vec_dedup(vec_sort(vec_push(self.items, element)))]

\* PriorityQueue_add without the sort().
Mut_PriorityQueue_add_nosort(self, element) ==
    [self EXCEPT !.items = vec_push(self.items, element)]

PriorityQueue_add(self, element) ==
    [self EXCEPT !.items = vec_sort(vec_push(self.items, element))]

PriorityQueue_remove(self) ==
    LET p == vec_pop(self.items)
    IN  [self |-> [self EXCEPT !.items = p.vec],
         ret  |-> ok_or_else(p.out, "Priority queue is empty")]

PriorityQueue_peek(self) ==
    ok_or_else(vec_last(self.items), "Priority queue is empty")

PriorityQueue_size(self) == Len(self.items)

DequeMode == {"Front", "Back"}

Deque_new(mode) == [kind |-> "Deque", items |-> <<>>, mode |-> mode]

Deque_add(self, element) == [self EXCEPT !.items = vec_push(self.items, element)]

\* Deque_remove with the two match arms exchanged.
Mut_Deque_remove_swapped(self) ==
    IF Len(self.items) = 0
    THEN [self |-> self, ret |-> Err("Deque is empty")]
    ELSE IF self.mode = "Back"
         THEN LET r == vec_remove(self.items, 0)
              IN  [self |-> [self EXCEPT !.items = r.vec], ret |-> ok_of(r.out)]
         ELSE LET p == vec_pop(self.items)
              IN  [self |-> [self EXCEPT !.items = p.vec],
                   ret  |-> ok_or_else(p.out, "Deque is empty")]

\* Deque_remove that also turns the mode over after a removal.
Mut_Deque_remove_toggle(self) ==
    IF Len(self.items) = 0
    THEN [self |-> self, ret |-> Err("Deque is empty")]
    ELSE IF self.mode = "Front"
         THEN LET r == vec_remove(self.items, 0)
              IN  [self |-> [self EXCEPT !.items = r.vec, !.mode = "Back"],
                   ret  |-> ok_of(r.out)]
         ELSE LET p == vec_pop(self.items)
              IN  [self |-> [self EXCEPT !.items = p.vec, !.mode = "Front"],
                   ret  |-> ok_or_else(p.out, "Deque is empty")]

Deque_remove(self) ==
    IF Len(self.items) = 0
    THEN [self |-> self, ret |-> Err("Deque is empty")]
    ELSE IF self.mode = "Front"
         THEN LET r == vec_remove(self.items, 0)
              IN  [self |-> [self EXCEPT !.items = r.vec], ret |-> ok_of(r.out)]
         ELSE LET p == vec_pop(self.items)
              IN  [self |-> [self EXCEPT !.items = p.vec],
                   ret  |-> ok_or_else(p.out, "Deque is empty")]

\* Deque_peek with the two match arms exchanged.
Mut_Deque_peek_swapped(self) ==
    IF Len(self.items) = 0
    THEN Err("Deque is empty")
    ELSE IF self.mode = "Back"
         THEN ok_of(vec_index(self.items, 0))
         ELSE ok_of(vec_index(self.items, Len(self.items) - 1))

Deque_peek(self) ==
    IF Len(self.items) = 0
    THEN Err("Deque is empty")
    ELSE IF self.mode = "Front"
         THEN ok_of(vec_index(self.items, 0))
         ELSE ok_of(vec_index(self.items, Len(self.items) - 1))

Deque_size(self) == Len(self.items)

\* Calls through &mut dyn DataStructure: dispatch on the concrete type.
add(self, element) ==
    CASE self.kind = "Stack" -> Stack_add(self, element)
      [] self.kind = "Queue" -> Queue_add(self, element)
      [] self.kind = "PriorityQueue" -> PriorityQueue_add(self, element)
      [] self.kind = "Deque" -> Deque_add(self, element)

remove(self) ==
    CASE self.kind = "Stack" -> Stack_remove(self)
      [] self.kind = "Queue" -> Queue_remove(self)
      [] self.kind = "PriorityQueue" -> PriorityQueue_remove(self)
      [] self.kind = "Deque" -> Deque_remove(self)

peek(self) ==
    CASE self.kind = "Stack" -> Stack_peek(self)
      [] self.kind = "Queue" -> Queue_peek(self)
      [] self.kind = "PriorityQueue" -> PriorityQueue_peek(self)
      [] self.kind = "Deque" -> Deque_peek(self)

size(self) ==
    CASE self.kind = "Stack" -> Stack_size(self)
      [] self.kind = "Queue" -> Queue_size(self)
      [] self.kind = "PriorityQueue" -> PriorityQueue_size(self)
      [] self.kind = "Deque" -> Deque_size(self)

\* The trait's provided method.
\* is_empty comparing with 1 instead of 0.
Mut_is_empty_one(self) == size(self) <= 1

is_empty(self) == size(self) = 0

----------------------------------------------------------------------------
(* The state machine: one container, built by one of the five             *)
(* constructors, and any interleaving of trait calls on it.               *)

Ids(v) == {v[i].id : i \in 1..Len(v)}

Vals(v) == [i \in 1..Len(v) |-> v[i].val]

\* The program stops at a panic.
Running == call.ret # Panic

Init ==
    /\ ds \in {Stack_new, Queue_new, PriorityQueue_new,
               Deque_new("Back"), Deque_new("Front")}
    /\ call = [op |-> "new", ret |-> Unit]
    /\ prev = [op |-> "none", ret |-> Unit]
    /\ pre = ds
    /\ added = <<>>
    /\ removedVals = EmptyBag
    /\ removedIds = {}
    /\ pair = Unused
    /\ xfer = Unused
    /\ drain = Unused
    /\ svc = Unused

Add(element) ==
    /\ Running
    /\ Len(added) < MaxAdds
    /\ ds' = add(ds, [val |-> element, id |-> Len(added) + 1])
    /\ call' = [op |-> "add", arg |-> element, ret |-> Unit]
    /\ prev' = call
    /\ pre' = ds
    /\ added' = Append(added, element)
    /\ UNCHANGED <<removedVals, removedIds>>
    /\ UNCHANGED <<pair, xfer, drain, svc>>

Remove ==
    /\ Running
    /\ LET r == remove(ds)
       IN  /\ ds' = r.self
           /\ call' = [op |-> "remove", ret |-> r.ret]
           /\ removedVals' = IF r.ret.tag = "Ok"
                             THEN removedVals (+) SetToBag({r.ret.val})
                             ELSE removedVals
           /\ removedIds' = removedIds \cup (Ids(ds.items) \ Ids(r.self.items))
    /\ prev' = call
    /\ pre' = ds
    /\ UNCHANGED added
    /\ UNCHANGED <<pair, xfer, drain, svc>>

Peek ==
    /\ Running
    /\ call' = [op |-> "peek", ret |-> peek(ds)]
    /\ prev' = call
    /\ pre' = ds
    /\ UNCHANGED <<ds, added, removedVals, removedIds>>
    /\ UNCHANGED <<pair, xfer, drain, svc>>

Size ==
    /\ Running
    /\ call' = [op |-> "size", ret |-> Usize(size(ds))]
    /\ prev' = call
    /\ pre' = ds
    /\ UNCHANGED <<ds, added, removedVals, removedIds>>
    /\ UNCHANGED <<pair, xfer, drain, svc>>

IsEmpty ==
    /\ Running
    /\ call' = [op |-> "is_empty", ret |-> Bool(is_empty(ds))]
    /\ prev' = call
    /\ pre' = ds
    /\ UNCHANGED <<ds, added, removedVals, removedIds>>
    /\ UNCHANGED <<pair, xfer, drain, svc>>

Next ==
    \/ \E element \in Values : Add(element)
    \/ Remove
    \/ Peek
    \/ Size
    \/ IsEmpty

Spec == Init /\ [][Next]_vars

----------------------------------------------------------------------------
(* Vocabulary of the properties.                                           *)

\* The bag of the entries of a sequence.
BagOfSeq(s) ==
    [x \in {s[i] : i \in 1..Len(s)} |-> Cardinality({i \in 1..Len(s) : s[i] = x})]

MaxOf(S) == CHOOSE x \in S : \A y \in S : y <= x

MinOf(S) == CHOOSE x \in S : \A y \in S : x <= y

\* Ordinals of the add calls whose element has not left the container.
Live == (1..Len(added)) \ removedIds

\* Ordinals of the elements the last call took out of items.
Gone == Ids(pre.items) \ Ids(ds.items)

\* Live as it was when the last call (a remove or a peek) was made.
LiveBefore == Live \cup Gone

----------------------------------------------------------------------------
\* C1: in every reachable state size() is the number of elements held,
\* which is the number of add calls minus the number of successful removes;
\* a size() call returns that number.
SizeIsExactCount ==
    /\ size(ds) = Len(ds.items)
    /\ size(ds) = Len(added) - BagCardinality(removedVals)
    /\ call.op = "size" => call.ret = Usize(Len(added) - BagCardinality(removedVals))

SizeIsExactCountWitness ==
    /\ call.op = "size"
    /\ prev.op = "remove"
    /\ Len(added) = 3
    /\ BagCardinality(removedVals) = 2
    /\ call.ret = Usize(1)

\* C2: a peek() on a non-empty container and the remove() made right after
\* it return the same Ok value.
PeekThenRemoveAgree ==
    (prev.op = "peek" /\ call.op = "remove" /\ ~is_empty(pre))
        => (prev.ret.tag = "Ok" /\ call.ret = prev.ret)

PeekThenRemoveAgreeWitness ==
    /\ prev.op = "peek"
    /\ call.op = "remove"
    /\ call.ret.tag = "Ok"
    /\ ds.kind = "Deque"
    /\ Len(pre.items) = 3
    /\ pre.items[1].val # pre.items[3].val

\* C3: the values successful removes returned together with the values
\* still held are exactly the values added, each held element is one add
\* that has not left, and an emptied container has returned every value.
NoElementLostOrDuplicated ==
    /\ BagOfSeq(Vals(ds.items)) (+) removedVals = BagOfSeq(added)
    /\ Ids(ds.items) = Live
    /\ Cardinality(Ids(ds.items)) = Len(ds.items)
    /\ \A i \in 1..Len(ds.items) : ds.items[i].val = added[ds.items[i].id]
    /\ is_empty(ds) => removedVals = BagOfSeq(added)

NoElementLostOrDuplicatedWitness ==
    /\ call.op = "remove"
    /\ is_empty(ds)
    /\ ds.kind = "PriorityQueue"
    /\ added = <<20, 30, 20>>
    /\ BagCardinality(removedVals) = 3

\* C4: remove() returns Err exactly when size() was 0 before the call; a
\* failed remove leaves the container as it was (empty), never panics; a
\* successful one decreases size() by exactly 1.
RemoveFailsIffEmpty ==
    call.op = "remove" =>
        /\ call.ret.tag \in {"Ok", "Err"}
        /\ (call.ret.tag = "Err") <=> (size(pre) = 0)
        /\ call.ret.tag = "Err" => (ds = pre /\ size(ds) = 0)
        /\ call.ret.tag = "Ok" => size(ds) = size(pre) - 1

RemoveFailsIffEmptyWitness ==
    /\ call.op = "remove"
    /\ call.ret.tag = "Err"
    /\ prev.op = "remove"
    /\ prev.ret.tag = "Ok"
    /\ Len(added) = 2

\* C5: peek() returns Err exactly when the container is empty, leaves the
\* container as it was, and on success returns what the next remove() returns.
PeekIsPureAndMirrorsRemove ==
    call.op = "peek" =>
        /\ call.ret.tag \in {"Ok", "Err"}
        /\ (call.ret.tag = "Err") <=> is_empty(pre)
        /\ ds = pre
        /\ size(ds) = size(pre)
        /\ call.ret.tag = "Ok" => remove(ds).ret = call.ret

PeekIsPureAndMirrorsRemoveWitness ==
    /\ call.op = "peek"
    /\ call.ret.tag = "Ok"
    /\ Len(ds.items) = 2
    /\ ds.items[1].val # ds.items[2].val
    /\ removedIds # {}

\* C6: add(value) returns (), the container then holds that value once
\* more than before and nothing else of its contents changed, size() is 1
\* larger and is_empty() is false.
AddAlwaysSucceeds ==
    call.op = "add" =>
        /\ call.ret = Unit
        /\ size(ds) = size(pre) + 1
        /\ ~is_empty(ds)
        /\ BagOfSeq(Vals(ds.items))
              = BagOfSeq(Vals(pre.items)) (+) SetToBag({call.arg})

AddAlwaysSucceedsWitness ==
    /\ call.op = "add"
    /\ size(ds) = 3
    /\ call.arg = 20
    /\ Vals(pre.items) = <<20, 20>>

\* C7: a peek() or remove() of a non-empty Stack returns the value of the
\* most recently added element that has not been removed, and remove()
\* takes exactly that element out; after add 10, 20, 30 peek and remove
\* return 30 and the size is then 2.
StackIsLIFO ==
    /\ (ds.kind = "Stack" /\ call.op \in {"remove", "peek"} /\ ~is_empty(pre))
          => /\ call.ret = Ok(added[MaxOf(LiveBefore)])
             /\ call.op = "remove" => Gone = {MaxOf(LiveBefore)}
    /\ (ds.kind = "Stack" /\ added = <<10, 20, 30>> /\ removedIds = {})
          => /\ peek(ds) = Ok(30)
             /\ remove(ds).ret = Ok(30)
             /\ size(remove(ds).self) = 2

StackIsLIFOWitness ==
    /\ ds.kind = "Stack"
    /\ added = <<10, 20, 30>>
    /\ prev = [op |-> "peek", ret |-> Ok(30)]
    /\ call = [op |-> "remove", ret |-> Ok(30)]
    /\ size(ds) = 2

\* C8: a peek() or remove() of a non-empty Queue returns the value of the
\* earliest added element that has not been removed, and remove() takes
\* exactly that element out; after add 10, 20, 30 peek and remove return 10
\* and the size is then 2.
QueueIsFIFO ==
    /\ (ds.kind = "Queue" /\ call.op \in {"remove", "peek"} /\ ~is_empty(pre))
          => /\ call.ret = Ok(added[MinOf(LiveBefore)])
             /\ call.op = "remove" => Gone = {MinOf(LiveBefore)}
    /\ (ds.kind = "Queue" /\ added = <<10, 20, 30>> /\ removedIds = {})
          => /\ peek(ds) = Ok(10)
             /\ remove(ds).ret = Ok(10)
             /\ size(remove(ds).self) = 2

QueueIsFIFOWitness ==
    /\ ds.kind = "Queue"
    /\ added = <<10, 20, 30>>
    /\ prev = [op |-> "peek", ret |-> Ok(10)]
    /\ call = [op |-> "remove", ret |-> Ok(10)]
    /\ size(ds) = 2

\* C9: a peek() or remove() of a non-empty PriorityQueue returns the
\* largest value among the elements not yet removed, and remove() takes
\* out exactly one element, one that has that value.
PriorityQueueReturnsMaximum ==
    (ds.kind = "PriorityQueue" /\ call.op \in {"remove", "peek"} /\ ~is_empty(pre))
        => /\ call.ret = Ok(MaxOf({added[i] : i \in LiveBefore}))
           /\ call.op = "remove"
                => /\ Cardinality(Gone) = 1
                   /\ \A i \in Gone : added[i] = call.ret.val
                   /\ BagOfSeq(Vals(pre.items))
                         = BagOfSeq(Vals(ds.items)) (+) SetToBag({call.ret.val})

PriorityQueueReturnsMaximumWitness ==
    /\ ds.kind = "PriorityQueue"
    /\ added = <<30, 10, 30>>
    /\ removedIds = {}
    /\ prev.op = "add"
    /\ call = [op |-> "peek", ret |-> Ok(30)]

PriorityQueueEqualMaximaWitness ==
    /\ ds.kind = "PriorityQueue"
    /\ added = <<30, 10, 30>>
    /\ call = [op |-> "remove", ret |-> Ok(30)]
    /\ Vals(ds.items) = <<10, 30>>

\* C10: a peek() or remove() of a non-empty Deque selects, in Front mode,
\* the earliest added element still present and, in Back mode, the most
\* recently added one; remove() takes exactly that element out.
DequeSelectsByMode ==
    (ds.kind = "Deque" /\ call.op \in {"remove", "peek"} /\ ~is_empty(pre))
        => LET chosen == IF ds.mode = "Front"
                         THEN MinOf(LiveBefore)
                         ELSE MaxOf(LiveBefore)
           IN  /\ call.ret = Ok(added[chosen])
               /\ call.op = "remove" => Gone = {chosen}

DequeSelectsByModeWitness ==
    /\ ds.kind = "Deque"
    /\ ds.mode = "Front"
    /\ added = <<30, 20, 10>>
    /\ prev = [op |-> "remove", ret |-> Ok(30)]
    /\ call = [op |-> "remove", ret |-> Ok(20)]

DequeBackWitness ==
    /\ ds.kind = "Deque"
    /\ ds.mode = "Back"
    /\ Len(added) = 3
    /\ removedIds = {2}
    /\ call = [op |-> "peek", ret |-> Ok(added[3])]
    /\ added[1] # added[3]

----------------------------------------------------------------------------
(* Two containers of the same variant, each receiving its own calls: the   *)
(* contents of one are reached through a history the other did not have.   *)
(* When both hold the same elements, peek() and remove() are called on     *)
(* both and the results are kept in pair.obs.                              *)

NoObs == [tag |-> "NoObs"]

\* The same elements: the same values in the same order, or, for a
\* PriorityQueue, the same values with the same multiplicities.
SameContents(a, b) ==
    /\ a.kind = b.kind
    /\ a.kind = "Deque" => a.mode = b.mode
    /\ IF a.kind = "PriorityQueue"
       THEN BagOfSeq(Vals(a.items)) = BagOfSeq(Vals(b.items))
       ELSE Vals(a.items) = Vals(b.items)

Constructors ==
    {Stack_new, Queue_new, PriorityQueue_new, Deque_new("Back"), Deque_new("Front")}

InitPair ==
    /\ \E c \in Constructors :
          pair = [a |-> c, b |-> c, na |-> 0, nb |-> 0, obs |-> NoObs]
    /\ ds = Stack_new
    /\ call = [op |-> "new", ret |-> Unit]
    /\ prev = [op |-> "none", ret |-> Unit]
    /\ pre = ds
    /\ added = <<>>
    /\ removedVals = EmptyBag
    /\ removedIds = {}
    /\ xfer = Unused
    /\ drain = Unused
    /\ svc = Unused

PairAddA(element) ==
    /\ pair.na < MaxPairAdds
    /\ pair' = [pair EXCEPT !.a = add(pair.a, [val |-> element, id |-> pair.na + 1]),
                            !.na = pair.na + 1,
                            !.obs = NoObs]
    /\ UNCHANGED <<single, xfer, drain, svc>>

PairAddB(element) ==
    /\ pair.nb < MaxPairAdds
    /\ pair' = [pair EXCEPT !.b = add(pair.b, [val |-> element, id |-> pair.nb + 1]),
                            !.nb = pair.nb + 1,
                            !.obs = NoObs]
    /\ UNCHANGED <<single, xfer, drain, svc>>

PairRemoveA ==
    /\ remove(pair.a).ret.tag = "Ok"
    /\ pair' = [pair EXCEPT !.a = remove(pair.a).self, !.obs = NoObs]
    /\ UNCHANGED <<single, xfer, drain, svc>>

PairRemoveB ==
    /\ remove(pair.b).ret.tag = "Ok"
    /\ pair' = [pair EXCEPT !.b = remove(pair.b).self, !.obs = NoObs]
    /\ UNCHANGED <<single, xfer, drain, svc>>

PairObserve ==
    /\ SameContents(pair.a, pair.b)
    /\ pair' = [pair EXCEPT !.a = remove(pair.a).self,
                            !.b = remove(pair.b).self,
                            !.obs = [a0 |-> pair.a, b0 |-> pair.b,
                                     peekA |-> peek(pair.a), peekB |-> peek(pair.b),
                                     removeA |-> remove(pair.a).ret,
                                     removeB |-> remove(pair.b).ret]]
    /\ UNCHANGED <<single, xfer, drain, svc>>

NextPair ==
    \/ \E element \in Values : PairAddA(element)
    \/ \E element \in Values : PairAddB(element)
    \/ PairRemoveA
    \/ PairRemoveB
    \/ PairObserve

SpecPair == InitPair /\ [][NextPair]_vars

\* C11: two containers of one variant that hold the same elements (the
\* same multiset for a PriorityQueue), however each was reached, return the
\* same peek(), the same remove(), and hold the same elements afterwards.
ResultsDependOnContentsOnly ==
    pair.obs # NoObs
        => /\ pair.obs.peekA = pair.obs.peekB
           /\ pair.obs.removeA = pair.obs.removeB
           /\ SameContents(pair.a, pair.b)

ResultsDependOnContentsOnlyWitness ==
    /\ pair.obs # NoObs
    /\ pair.a.kind = "PriorityQueue"
    /\ Len(pair.obs.a0.items) = 2
    /\ pair.obs.a0.items # pair.obs.b0.items
    /\ pair.obs.removeA = Ok(20)
    /\ Vals(pair.a.items) = <<10>>

----------------------------------------------------------------------------
(* RestrictiveStructure of lsp_violation_demonstration.rs: an implementor  *)
(* whose remove() can fail while size() > 0.  add of that file's trait     *)
(* returns Result<(), String>.                                             *)

RestrictiveStructure_new == [kind |-> "RestrictiveStructure", items |-> <<>>]

\* RestrictiveStructure_add refusing 100 as well.
Mut_RestrictiveStructure_add_below(self, element) ==
    IF element.val < 0
    THEN [self |-> self, ret |-> Err("Negative numbers not allowed!")]
    ELSE IF element.val >= 100
         THEN [self |-> self, ret |-> Err("Numbers greater than 100 not allowed!")]
         ELSE [self |-> [self EXCEPT !.items = vec_push(self.items, element)],
               ret  |-> Ok(Unit)]

RestrictiveStructure_add(self, element) ==
    IF element.val < 0
    THEN [self |-> self, ret |-> Err("Negative numbers not allowed!")]
    ELSE IF element.val > 100
         THEN [self |-> self, ret |-> Err("Numbers greater than 100 not allowed!")]
         ELSE [self |-> [self EXCEPT !.items = vec_push(self.items, element)],
               ret  |-> Ok(Unit)]

\* RestrictiveStructure_remove without the test on len() == 1.
Mut_RestrictiveStructure_remove_last(self) ==
    IF Len(self.items) = 0
    THEN [self |-> self, ret |-> Err("Structure is empty")]
    ELSE LET p == vec_pop(self.items)
         IN  [self |-> [self EXCEPT !.items = p.vec],
              ret  |-> ok_or_else(p.out, "Structure is empty")]

RestrictiveStructure_remove(self) ==
    IF Len(self.items) = 0
    THEN [self |-> self, ret |-> Err("Structure is empty")]
    ELSE IF Len(self.items) = 1
         THEN [self |-> self, ret |-> Err("Cannot remove last element!")]
         ELSE LET p == vec_pop(self.items)
              IN  [self |-> [self EXCEPT !.items = p.vec],
                   ret  |-> ok_or_else(p.out, "Structure is empty")]

RestrictiveStructure_peek(self) ==
    IF Len(self.items) = 0
    THEN Err("Structure is empty")
    ELSE IF Len(self.items) = 1
         THEN Err("Cannot peek at last element!")
         ELSE ok_of(vec_index(self.items, Len(self.items) - 1))

RestrictiveStructure_size(self) == Len(self.items)

----------------------------------------------------------------------------
(* transfer_elements(source, target, count).  xfer is its frame: the two   *)
(* containers, count, the loop counter i, pc ("loop" or "done") and the    *)
(* value returned; source0 and target0 are the containers on entry, and    *)
(* removes, adds, removedLog, addedLog, failed record the calls it made.   *)

\* source.remove() and source.is_empty() through the trait object.
source_remove(self) ==
    IF self.kind = "RestrictiveStructure"
    THEN RestrictiveStructure_remove(self)
    ELSE remove(self)

source_is_empty(self) ==
    IF self.kind = "RestrictiveStructure"
    THEN RestrictiveStructure_size(self) = 0
    ELSE is_empty(self)

\* transfer_elements without the test of source.is_empty().
Mut_transfer_step_no_check(f) ==
    IF f.i >= f.count
    THEN [f EXCEPT !.pc = "done", !.ret = Ok(Unit)]
    ELSE LET r == source_remove(f.source)
         IN  IF r.ret.tag = "Ok"
             THEN [f EXCEPT !.source = r.self,
                            !.target = add(f.target,
                                           [val |-> r.ret.val,
                                            id |-> Len(f.target0.items) + f.adds + 1]),
                            !.i = f.i + 1,
                            !.removes = f.removes + 1,
                            !.adds = f.adds + 1,
                            !.removedLog = Append(f.removedLog, r.ret.val),
                            !.addedLog = Append(f.addedLog, r.ret.val)]
             ELSE [f EXCEPT !.source = r.self,
                            !.pc = "done",
                            !.ret = r.ret,
                            !.removes = f.removes + 1,
                            !.failed = r.ret]

\* The range 0..count taken as 0..=count.
Mut_transfer_step_inclusive(f) ==
    IF f.i > f.count \/ source_is_empty(f.source)
    THEN [f EXCEPT !.pc = "done", !.ret = Ok(Unit)]
    ELSE LET r == source_remove(f.source)
         IN  IF r.ret.tag = "Ok"
             THEN [f EXCEPT !.source = r.self,
                            !.target = add(f.target,
                                           [val |-> r.ret.val,
                                            id |-> Len(f.target0.items) + f.adds + 1]),
                            !.i = f.i + 1,
                            !.removes = f.removes + 1,
                            !.adds = f.adds + 1,
                            !.removedLog = Append(f.removedLog, r.ret.val),
                            !.addedLog = Append(f.addedLog, r.ret.val)]
             ELSE [f EXCEPT !.source = r.self,
                            !.pc = "done",
                            !.ret = r.ret,
                            !.removes = f.removes + 1,
                            !.failed = r.ret]

\* An Err of source.remove() skipped (the loop goes on) instead of returned.
Mut_transfer_step_skip_err(f) ==
    IF f.i >= f.count \/ source_is_empty(f.source)
    THEN [f EXCEPT !.pc = "done", !.ret = Ok(Unit)]
    ELSE LET r == source_remove(f.source)
         IN  IF r.ret.tag = "Ok"
             THEN [f EXCEPT !.source = r.self,
                            !.target = add(f.target,
                                           [val |-> r.ret.val,
                                            id |-> Len(f.target0.items) + f.adds + 1]),
                            !.i = f.i + 1,
                            !.removes = f.removes + 1,
                            !.adds = f.adds + 1,
                            !.removedLog = Append(f.removedLog, r.ret.val),
                            !.addedLog = Append(f.addedLog, r.ret.val)]
             ELSE [f EXCEPT !.source = r.self,
                            !.i = f.i + 1,
                            !.removes = f.removes + 1,
                            !.failed = r.ret]

\* One pass of the for loop, or the return that follows its end.
transfer_step(f) ==
    IF f.i >= f.count \/ source_is_empty(f.source)
    THEN [f EXCEPT !.pc = "done", !.ret = Ok(Unit)]
    ELSE LET r == source_remove(f.source)
         IN  IF r.ret.tag = "Ok"
             THEN [f EXCEPT !.source = r.self,
                            !.target = add(f.target,
                                           [val |-> r.ret.val,
                                            id |-> Len(f.target0.items) + f.adds + 1]),
                            !.i = f.i + 1,
                            !.removes = f.removes + 1,
                            !.adds = f.adds + 1,
                            !.removedLog = Append(f.removedLog, r.ret.val),
                            !.addedLog = Append(f.addedLog, r.ret.val)]
             ELSE [f EXCEPT !.source = r.self,
                            !.pc = "done",
                            !.ret = r.ret,
                            !.removes = f.removes + 1,
                            !.failed = r.ret]

\* A container after add has been called with each value of vs in turn.
RECURSIVE Filled(_, _)
Filled(c, vs) ==
    IF Len(vs) = 0
    THEN c
    ELSE add(Filled(c, SubSeq(vs, 1, Len(vs) - 1)),
             [val |-> vs[Len(vs)], id |-> Len(vs)])

RECURSIVE FilledRestrictive(_)
FilledRestrictive(vs) ==
    IF Len(vs) = 0
    THEN RestrictiveStructure_new
    ELSE RestrictiveStructure_add(FilledRestrictive(SubSeq(vs, 1, Len(vs) - 1)),
                                  [val |-> vs[Len(vs)], id |-> Len(vs)]).self

\* The add sequences that fill a container: any values, up to MaxFill of
\* them, and 1..=n as demonstrate_transfer does.
Fills ==
    UNION {[1..n -> Values] : n \in 0..MaxFill}
        \cup {[i \in 1..n |-> i] : n \in 0..DemoLen}

TargetFills == {<<>>, <<10>>, <<20, 10>>}

NewFrame(source, target, count) ==
    [source |-> source, target |-> target, count |-> count, i |-> 0,
     pc |-> "loop", ret |-> None, source0 |-> source, target0 |-> target,
     removes |-> 0, adds |-> 0, removedLog |-> <<>>, addedLog |-> <<>>,
     failed |-> None]

RestOfTransfer ==
    /\ ds = Stack_new
    /\ call = [op |-> "new", ret |-> Unit]
    /\ prev = [op |-> "none", ret |-> Unit]
    /\ pre = ds
    /\ added = <<>>
    /\ removedVals = EmptyBag
    /\ removedIds = {}
    /\ pair = Unused
    /\ drain = Unused
    /\ svc = Unused

InitTransfer ==
    /\ \E sc \in Constructors, tc \in Constructors, sf \in Fills,
          tf \in TargetFills, count \in 0..MaxCount :
          xfer = NewFrame(Filled(sc, sf), Filled(tc, tf), count)
    /\ RestOfTransfer

\* The source may be any implementor of the trait, also one whose remove()
\* fails on a container that is not empty.
InitTransferAny ==
    /\ \E tc \in Constructors, sf \in Fills, tf \in TargetFills, count \in 0..MaxCount :
          \/ \E sc \in Constructors : xfer = NewFrame(Filled(sc, sf), Filled(tc, tf), count)
          \/ xfer = NewFrame(FilledRestrictive(sf), Filled(tc, tf), count)
    /\ RestOfTransfer

TransferStep ==
    /\ xfer.pc = "loop"
    /\ xfer' = transfer_step(xfer)
    /\ UNCHANGED <<single, pair, drain, svc>>

NextTransfer == TransferStep

SpecTransfer == InitTransfer /\ [][NextTransfer]_vars

SpecTransferAny == InitTransferAny /\ [][NextTransfer]_vars

Min(a, b) == IF a <= b THEN a ELSE b

\* The last k entries of s, last one first.
LastReversed(s, k) == [j \in 1..k |-> s[Len(s) + 1 - j]]

\* The values the successive remove() calls return until the container is empty.
RECURSIVE RemoveAll(_)
RemoveAll(c) ==
    IF remove(c).ret.tag # "Ok"
    THEN <<>>
    ELSE <<remove(c).ret.val>> \o RemoveAll(remove(c).self)

\* C12: a finished transfer_elements between conforming variants has made
\* exactly min(count, source.size()) removes on source and as many adds on
\* target, each removed value added in the order removed; source.size() is
\* smaller and target.size() larger by that number.
TransferMovesMinCountSize ==
    xfer.pc = "done" =>
        LET k == Min(xfer.count, size(xfer.source0))
        IN  /\ xfer.removes = k
            /\ xfer.adds = k
            /\ Len(xfer.removedLog) = k
            /\ xfer.addedLog = xfer.removedLog
            /\ size(xfer.source) = size(xfer.source0) - k
            /\ size(xfer.target) = size(xfer.target0) + k
            /\ BagOfSeq(Vals(xfer.target.items))
                  = BagOfSeq(Vals(xfer.target0.items)) (+) BagOfSeq(xfer.addedLog)
            /\ BagOfSeq(Vals(xfer.source.items)) (+) BagOfSeq(xfer.removedLog)
                  = BagOfSeq(Vals(xfer.source0.items))

TransferMovesMinCountSizeWitness ==
    /\ xfer.pc = "done"
    /\ xfer.source0.kind = "PriorityQueue"
    /\ xfer.target0.kind = "Deque"
    /\ xfer.count = 2
    /\ Vals(xfer.source0.items) = <<10, 20, 30>>
    /\ xfer.removedLog = <<30, 20>>
    /\ Len(xfer.target0.items) = 1

TransferCountAboveSizeWitness ==
    /\ xfer.pc = "done"
    /\ xfer.count = 4
    /\ Len(xfer.source0.items) = 2
    /\ xfer.adds = 2

TransferCountZeroWitness ==
    /\ xfer.pc = "done"
    /\ xfer.count = 0
    /\ Len(xfer.source0.items) = 3
    /\ xfer.source = xfer.source0

\* C13: when a source.remove() has returned an error, transfer_elements
\* has returned that error, the failing remove is the last call it made, and
\* the elements moved before it are in target and missing from source only.
TransferPropagatesFirstError ==
    xfer.failed # None =>
        /\ xfer.pc = "done"
        /\ xfer.ret = xfer.failed
        /\ xfer.ret.tag = "Err"
        /\ xfer.removes = Len(xfer.removedLog) + 1
        /\ xfer.adds = Len(xfer.removedLog)
        /\ xfer.addedLog = xfer.removedLog
        /\ BagOfSeq(Vals(xfer.target.items))
              = BagOfSeq(Vals(xfer.target0.items)) (+) BagOfSeq(xfer.addedLog)
        /\ BagOfSeq(Vals(xfer.source.items)) (+) BagOfSeq(xfer.removedLog)
              = BagOfSeq(Vals(xfer.source0.items))

TransferPropagatesFirstErrorWitness ==
    /\ xfer.failed = Err("Cannot remove last element!")
    /\ xfer.ret = xfer.failed
    /\ xfer.count = 4
    /\ Vals(xfer.source0.items) = <<10, 20, 30>>
    /\ Vals(xfer.source.items) = <<10>>
    /\ xfer.target0.kind = "Queue"
    /\ Vals(xfer.target.items) = <<20, 10, 30, 20>>

\* C14: a finished transfer of count c from a Stack holding a1..an into a
\* Queue leaves the Stack holding a1..a(n-k), k = min(c, n), and the Queue
\* holding what it held followed by an, a(n-1), .., a(n-k+1), which is the
\* order its removes return them in; from 1..5 with c = 3 and an empty
\* Queue the Stack ends as 1, 2 and the Queue's next remove() returns 5.
StackToQueueTransferOrder ==
    (xfer.pc = "done" /\ xfer.source0.kind = "Stack" /\ xfer.target0.kind = "Queue")
        => LET a == Vals(xfer.source0.items)
               k == Min(xfer.count, Len(a))
           IN  /\ Vals(xfer.source.items) = SubSeq(a, 1, Len(a) - k)
               /\ xfer.addedLog = LastReversed(a, k)
               /\ Vals(xfer.target.items)
                     = Vals(xfer.target0.items) \o LastReversed(a, k)
               /\ RemoveAll(xfer.target)
                     = Vals(xfer.target0.items) \o LastReversed(a, k)
               /\ (a = <<1, 2, 3, 4, 5>> /\ xfer.count = 3 /\ Len(xfer.target0.items) = 0)
                     => /\ Vals(xfer.source.items) = <<1, 2>>
                        /\ size(xfer.source) = 2
                        /\ Vals(xfer.target.items) = <<5, 4, 3>>
                        /\ remove(xfer.target).ret = Ok(5)

StackToQueueTransferOrderWitness ==
    /\ xfer.pc = "done"
    /\ xfer.source0.kind = "Stack"
    /\ xfer.target0.kind = "Queue"
    /\ Vals(xfer.source0.items) = <<1, 2, 3, 4, 5>>
    /\ xfer.count = 3
    /\ Len(xfer.target0.items) = 0
    /\ Vals(xfer.source.items) = <<1, 2>>
    /\ remove(xfer.target).ret = Ok(5)

----------------------------------------------------------------------------
\* The end of items the variant removes from: fixed by the type, and for a
\* Deque by the mode it was built with.
RemovesAtFront(c) == c.kind = "Queue" \/ (c.kind = "Deque" /\ c.mode = "Front")

\* C15: no call changes the variant of the container or the mode of a
\* Deque, and every successful remove() takes the element at the end that
\* the variant and mode stand for.
PolicyFixedAtConstruction ==
    /\ ds.kind = pre.kind
    /\ ds.kind = "Deque" => (ds.mode = pre.mode /\ ds.mode \in DequeMode)
    /\ (call.op = "remove" /\ call.ret.tag = "Ok")
          => Gone = {pre.items[IF RemovesAtFront(pre) THEN 1 ELSE Len(pre.items)].id}

PolicyFixedAtConstructionWitness ==
    /\ ds.kind = "Deque"
    /\ ds.mode = "Front"
    /\ call.op = "remove"
    /\ prev.op = "add"
    /\ removedIds = {1, 2}
    /\ Len(ds.items) = 2

\* C16: is_empty() is true exactly when size() is 0, an is_empty() call
\* returns that and leaves the container as it was, and an is_empty() call
\* right after another returns the same.
IsEmptyIffSizeZero ==
    /\ is_empty(ds) <=> (size(ds) = 0)
    /\ call.op = "is_empty"
          => /\ call.ret = Bool(size(pre) = 0)
             /\ ds = pre
    /\ (prev.op = "is_empty" /\ call.op = "is_empty") => call.ret = prev.ret

IsEmptyIffSizeZeroWitness ==
    /\ prev.op = "is_empty"
    /\ call.op = "is_empty"
    /\ call.ret = Bool(FALSE)
    /\ Len(ds.items) = 1
    /\ Len(added) = 3

----------------------------------------------------------------------------
(* lsp_violation_demonstration.rs: its own trait DataStructure, whose add  *)
(* returns Result<(), String>, and the implementors that break the         *)
(* contract.  add and remove yield [self, ret]; peek yields ret.           *)

Max(a, b) == IF a >= b THEN a ELSE b

RandomStructure_new == [kind |-> "RandomStructure", items |-> <<>>]

RandomStructure_add(self, element) ==
    [self |-> [self EXCEPT !.items = vec_push(self.items, element)], ret |-> Ok(Unit)]

\* RandomStructure_remove with the index fixed at 0.
Mut_RandomStructure_remove_first(self) ==
    IF Len(self.items) = 0
    THEN {[self |-> self, ret |-> Err("Structure is empty")]}
    ELSE {LET r == vec_remove(self.items, 0)
          IN  [self |-> [self EXCEPT !.items = r.vec], ret |-> ok_of(r.out)]}

\* Every outcome of remove(): rng.gen_range(0..len) may be any index.
RandomStructure_remove(self) ==
    IF Len(self.items) = 0
    THEN {[self |-> self, ret |-> Err("Structure is empty")]}
    ELSE {LET r == vec_remove(self.items, index)
          IN  [self |-> [self EXCEPT !.items = r.vec], ret |-> ok_of(r.out)] :
          index \in 0..(Len(self.items) - 1)}

RandomStructure_peek(self) ==
    IF Len(self.items) = 0
    THEN Err("Structure is empty")
    ELSE ok_of(vec_index(self.items, Len(self.items) % Max(Len(self.items), 1)))

RandomStructure_size(self) == Len(self.items)

InconsistentStructure_new == [kind |-> "InconsistentStructure", items |-> <<>>]

InconsistentStructure_add(self, element) ==
    [self |-> [self EXCEPT !.items = vec_push(self.items, element)], ret |-> Ok(Unit)]

\* InconsistentStructure_remove without the test on len(): always the front.
Mut_InconsistentStructure_remove_fifo(self) ==
    IF Len(self.items) = 0
    THEN [self |-> self, ret |-> Err("Structure is empty")]
    ELSE LET r == vec_remove(self.items, 0)
         IN  [self |-> [self EXCEPT !.items = r.vec], ret |-> ok_of(r.out)]

InconsistentStructure_remove(self) ==
    IF Len(self.items) = 0
    THEN [self |-> self, ret |-> Err("Structure is empty")]
    ELSE IF Len(self.items) <= 2
         THEN LET r == vec_remove(self.items, 0)
              IN  [self |-> [self EXCEPT !.items = r.vec], ret |-> ok_of(r.out)]
         ELSE LET p == vec_pop(self.items)
              IN  [self |-> [self EXCEPT !.items = p.vec],
                   ret  |-> ok_or_else(p.out, "Structure is empty")]

InconsistentStructure_peek(self) ==
    IF Len(self.items) = 0
    THEN Err("Structure is empty")
    ELSE IF Len(self.items) <= 2
         THEN ok_of(vec_index(self.items, 0))
         ELSE ok_of(vec_index(self.items, Len(self.items) - 1))

InconsistentStructure_size(self) == Len(self.items)

SideEffectStructure_new ==
    [kind |-> "SideEffectStructure", items |-> <<>>, operation_count |-> 0,
     hidden_log |-> <<>>]

\* SideEffectStructure_add without the hidden second push.
Mut_SideEffectStructure_add_once(self, element) ==
    [self |-> [self EXCEPT !.items = vec_push(self.items, element),
                           !.operation_count = self.operation_count + 1],
     ret  |-> Ok(Unit)]

SideEffectStructure_add(self, element) ==
    LET count == self.operation_count + 1
        pushed == vec_push(self.items, element)
    IN  IF count % 3 = 0
        THEN [self |-> [self EXCEPT
                          !.items = vec_push(pushed, element),
                          !.operation_count = count,
                          !.hidden_log = Append(self.hidden_log,
                                                <<"Secret: Added", element.val>>)],
              ret  |-> Ok(Unit)]
        ELSE [self |-> [self EXCEPT !.items = pushed, !.operation_count = count],
              ret  |-> Ok(Unit)]

SideEffectStructure_remove(self) ==
    IF Len(self.items) = 0
    THEN [self |-> self, ret |-> Err("Structure is empty")]
    ELSE LET p == vec_pop(self.items)
             count == self.operation_count + 1
         IN  IF count % 5 = 0
             THEN [self |-> [self EXCEPT
                               !.items = vec_pop(p.vec).vec,
                               !.operation_count = count,
                               !.hidden_log = Append(self.hidden_log,
                                                     <<"Secret: Removed", p.out.val.val>>)],
                   ret  |-> Ok(p.out.val.val)]
             ELSE [self |-> [self EXCEPT !.items = p.vec, !.operation_count = count],
                   ret  |-> Ok(p.out.val.val)]

SideEffectStructure_peek(self) ==
    IF Len(self.items) = 0
    THEN Err("Structure is empty")
    ELSE ok_or_else(vec_last(self.items), "Structure is empty")

SideEffectStructure_size(self) == Len(self.items)

CorrectStack_new == [kind |-> "CorrectStack", items |-> <<>>]

CorrectStack_add(self, element) ==
    [self |-> [self EXCEPT !.items = vec_push(self.items, element)], ret |-> Ok(Unit)]

\* CorrectStack_remove taking the element at the front.
Mut_CorrectStack_remove_front(self) ==
    IF Len(self.items) = 0
    THEN [self |-> self, ret |-> Err("Stack is empty")]
    ELSE [self |-> [self EXCEPT !.items = Tail(self.items)],
          ret  |-> Ok(self.items[1].val)]

CorrectStack_remove(self) ==
    LET p == vec_pop(self.items)
    IN  [self |-> [self EXCEPT !.items = p.vec], ret |-> ok_or_else(p.out, "Stack is empty")]

CorrectStack_peek(self) == ok_or_else(vec_last(self.items), "Stack is empty")

CorrectStack_size(self) == Len(self.items)

MislabeledQueue_new == [kind |-> "MislabeledQueue", items |-> <<>>]

MislabeledQueue_add(self, element) ==
    [self |-> [self EXCEPT !.items = vec_push(self.items, element)], ret |-> Ok(Unit)]

MislabeledQueue_remove(self) ==
    IF Len(self.items) = 0
    THEN [self |-> self, ret |-> Err("Queue is empty")]
    ELSE LET r == vec_remove(self.items, 0)
         IN  [self |-> [self EXCEPT !.items = r.vec], ret |-> ok_of(r.out)]

MislabeledQueue_peek(self) == ok_or_else(vec_first(self.items), "Queue is empty")

MislabeledQueue_size(self) == Len(self.items)

WeakStructure_new == [kind |-> "WeakStructure", items |-> <<>>]

WeakStructure_add(self, element) ==
    [self |-> [self EXCEPT !.items = vec_push(self.items, element)], ret |-> Ok(Unit)]

\* The value WeakStructure returns in place of the right one.
Corrupt == -999

\* Every outcome of remove(): rand::random::<f64>() < 0.1 may go either way.
WeakStructure_remove(self) ==
    IF Len(self.items) = 0
    THEN {[self |-> self, ret |-> Err("Structure is empty")]}
    ELSE LET p == vec_pop(self.items)
         IN  {[self |-> [self EXCEPT !.items = p.vec], ret |-> Ok(Corrupt)],
              [self |-> [self EXCEPT !.items = p.vec],
               ret  |-> ok_or_else(p.out, "Structure is empty")]}

WeakStructure_peek(self) ==
    IF Len(self.items) = 0
    THEN {Err("Structure is empty")}
    ELSE {Ok(Corrupt), ok_of(vec_index(self.items, Len(self.items) - 1))}

\* saturating_add(1) differs from + 1 only at usize::MAX elements.
WeakStructure_size(self) == {Len(self.items) + 1, Len(self.items)}

\* Calls through &mut dyn DataStructure: the set of outcomes of a call.
V_add(self, element) ==
    CASE self.kind = "RandomStructure" -> {RandomStructure_add(self, element)}
      [] self.kind = "InconsistentStructure" -> {InconsistentStructure_add(self, element)}
      [] self.kind = "RestrictiveStructure" -> {RestrictiveStructure_add(self, element)}
      [] self.kind = "SideEffectStructure" -> {SideEffectStructure_add(self, element)}
      [] self.kind = "CorrectStack" -> {CorrectStack_add(self, element)}
      [] self.kind = "MislabeledQueue" -> {MislabeledQueue_add(self, element)}
      [] self.kind = "WeakStructure" -> {WeakStructure_add(self, element)}

V_remove(self) ==
    CASE self.kind = "RandomStructure" -> RandomStructure_remove(self)
      [] self.kind = "InconsistentStructure" -> {InconsistentStructure_remove(self)}
      [] self.kind = "RestrictiveStructure" -> {RestrictiveStructure_remove(self)}
      [] self.kind = "SideEffectStructure" -> {SideEffectStructure_remove(self)}
      [] self.kind = "CorrectStack" -> {CorrectStack_remove(self)}
      [] self.kind = "MislabeledQueue" -> {MislabeledQueue_remove(self)}
      [] self.kind = "WeakStructure" -> WeakStructure_remove(self)

V_peek(self) ==
    CASE self.kind = "RandomStructure" -> {RandomStructure_peek(self)}
      [] self.kind = "InconsistentStructure" -> {InconsistentStructure_peek(self)}
      [] self.kind = "RestrictiveStructure" -> {RestrictiveStructure_peek(self)}
      [] self.kind = "SideEffectStructure" -> {SideEffectStructure_peek(self)}
      [] self.kind = "CorrectStack" -> {CorrectStack_peek(self)}
      [] self.kind = "MislabeledQueue" -> {MislabeledQueue_peek(self)}
      [] self.kind = "WeakStructure" -> WeakStructure_peek(self)

V_size(self) ==
    CASE self.kind = "RandomStructure" -> {RandomStructure_size(self)}
      [] self.kind = "InconsistentStructure" -> {InconsistentStructure_size(self)}
      [] self.kind = "RestrictiveStructure" -> {RestrictiveStructure_size(self)}
      [] self.kind = "SideEffectStructure" -> {SideEffectStructure_size(self)}
      [] self.kind = "CorrectStack" -> {CorrectStack_size(self)}
      [] self.kind = "MislabeledQueue" -> {MislabeledQueue_size(self)}
      [] self.kind = "WeakStructure" -> WeakStructure_size(self)

\* The trait's provided method: self.size() == 0.
V_is_empty(self) == {n = 0 : n \in V_size(self)}

----------------------------------------------------------------------------
(* One structure of the violation file and any interleaving of trait       *)
(* calls on it; ds, call, prev, pre and the histories are used as in Spec. *)

InitViolation(new) ==
    /\ ds = new
    /\ call = [op |-> "new", ret |-> Unit]
    /\ prev = [op |-> "none", ret |-> Unit]
    /\ pre = ds
    /\ added = <<>>
    /\ removedVals = EmptyBag
    /\ removedIds = {}
    /\ pair = Unused
    /\ xfer = Unused
    /\ drain = Unused
    /\ svc = Unused

VAdd(element) ==
    /\ Running
    /\ Len(added) < MaxVAdds
    /\ \E o \in V_add(ds, [val |-> element, id |-> Len(added) + 1]) :
          /\ ds' = o.self
          /\ call' = [op |-> "add", arg |-> element, ret |-> o.ret]
    /\ prev' = call
    /\ pre' = ds
    /\ added' = Append(added, element)
    /\ UNCHANGED <<removedVals, removedIds>>
    /\ UNCHANGED <<pair, xfer, drain, svc>>

VRemove ==
    /\ Running
    /\ \E o \in V_remove(ds) :
          /\ ds' = o.self
          /\ call' = [op |-> "remove", ret |-> o.ret]
          /\ removedVals' = IF o.ret.tag = "Ok"
                            THEN removedVals (+) SetToBag({o.ret.val})
                            ELSE removedVals
          /\ removedIds' = removedIds \cup (Ids(ds.items) \ Ids(o.self.items))
    /\ prev' = call
    /\ pre' = ds
    /\ UNCHANGED added
    /\ UNCHANGED <<pair, xfer, drain, svc>>

VPeek ==
    /\ Running
    /\ \E r \in V_peek(ds) : call' = [op |-> "peek", ret |-> r]
    /\ prev' = call
    /\ pre' = ds
    /\ UNCHANGED <<ds, added, removedVals, removedIds>>
    /\ UNCHANGED <<pair, xfer, drain, svc>>

VSize ==
    /\ Running
    /\ \E n \in V_size(ds) : call' = [op |-> "size", ret |-> Usize(n)]
    /\ prev' = call
    /\ pre' = ds
    /\ UNCHANGED <<ds, added, removedVals, removedIds>>
    /\ UNCHANGED <<pair, xfer, drain, svc>>

VIsEmpty ==
    /\ Running
    /\ \E e \in V_is_empty(ds) : call' = [op |-> "is_empty", ret |-> Bool(e)]
    /\ prev' = call
    /\ pre' = ds
    /\ UNCHANGED <<ds, added, removedVals, removedIds>>
    /\ UNCHANGED <<pair, xfer, drain, svc>>

NextViolation ==
    \/ \E element \in ViolationValues : VAdd(element)
    \/ VRemove
    \/ VPeek
    \/ VSize
    \/ VIsEmpty

InitInconsistent == InitViolation(InconsistentStructure_new)

SpecInconsistent == InitInconsistent /\ [][NextViolation]_vars

InitSideEffect == InitViolation(SideEffectStructure_new)

SpecSideEffect == InitSideEffect /\ [][NextViolation]_vars

InitRandom == InitViolation(RandomStructure_new)

SpecRandom == InitRandom /\ [][NextViolation]_vars

----------------------------------------------------------------------------
\* C17: InconsistentStructure selects by its size: remove() and peek() take
\* the element at the front when it holds at most 2 elements and the one at
\* the back when it holds more, so the end it selects is not one policy fixed
\* for its lifetime but switches between FIFO and LIFO with the state.
InconsistentSwitchesPolicyBySize ==
    (ds.kind = "InconsistentStructure" /\ call.op \in {"remove", "peek"}) =>
        LET n == Len(pre.items)
        IN  /\ n = 0 => call.ret.tag = "Err" /\ ds = pre
            /\ (n >= 1 /\ n <= 2) =>
                  /\ call.ret = Ok(pre.items[1].val)
                  /\ call.op = "remove" => ds.items = Tail(pre.items)
            /\ n > 2 =>
                  /\ call.ret = Ok(pre.items[n].val)
                  /\ call.op = "remove" => ds.items = SubSeq(pre.items, 1, n - 1)
            /\ call.op = "peek" => ds = pre

\* Two consecutive removes of one instance, the first taking the last added
\* of three elements and the second the first added, the two values differing.
InconsistentSwitchesPolicyBySizeWitness ==
    /\ ds.kind = "InconsistentStructure"
    /\ Len(added) = 3
    /\ added[1] # added[3]
    /\ prev.op = "remove" /\ prev.ret = Ok(added[3])
    /\ call.op = "remove" /\ call.ret = Ok(added[1])
    /\ removedIds = {1, 3}

----------------------------------------------------------------------------
\* C18: SideEffectStructure numbers its operations, every add and every
\* successful remove counting one; an add whose number is a multiple of 3
\* inserts its element twice and every other add inserts it once, so add does
\* not always increase the size by 1, and k consecutive adds on a fresh
\* instance leave size() = k + floor(k/3).
SideEffectDuplicatesEveryThirdOperation ==
    ds.kind = "SideEffectStructure" =>
        /\ ds.operation_count = Len(added) + BagCardinality(removedVals)
        /\ call.op = "add" =>
              LET n == pre.operation_count + 1
                  e == [val |-> call.arg, id |-> Len(added)]
              IN  /\ call.ret = Ok(Unit)
                  /\ ds.operation_count = n
                  /\ ds.items = IF n % 3 = 0 THEN pre.items \o <<e, e>>
                                             ELSE pre.items \o <<e>>
        /\ BagCardinality(removedVals) = 0 =>
              /\ Len(ds.items) = Len(added) + (Len(added) \div 3)
              /\ call.op = "size" => call.ret = Usize(Len(added) + (Len(added) \div 3))

\* The fifth consecutive add on a fresh instance has returned: 6 elements are
\* held, the third value twice.
SideEffectDuplicatesEveryThirdOperationWitness ==
    /\ ds.kind = "SideEffectStructure"
    /\ call.op = "add"
    /\ Len(added) = 5
    /\ BagCardinality(removedVals) = 0
    /\ Len(ds.items) = 6
    /\ ds.items[3] = ds.items[4]
    /\ Len(ds.hidden_log) = 1

----------------------------------------------------------------------------
\* C19: RandomStructure's remove() may select any element currently held (for
\* every position there is an outcome that returns and removes the element at
\* it, and no outcome does anything else), while peek() reports the element
\* at the front; so peek() followed immediately by remove() can return two
\* different values, which the peek/remove agreement property forbids.
RandomRemoveSelectsAnyElement ==
    ds.kind = "RandomStructure" =>
        /\ Len(ds.items) = 0 =>
              RandomStructure_remove(ds) = {[self |-> ds, ret |-> Err("Structure is empty")]}
        /\ Len(ds.items) > 0 =>
              /\ RandomStructure_remove(ds) =
                    {[self |-> [ds EXCEPT !.items =
                                  SubSeq(ds.items, 1, i - 1) \o
                                  SubSeq(ds.items, i + 1, Len(ds.items))],
                      ret  |-> Ok(ds.items[i].val)] : i \in 1..Len(ds.items)}
              /\ RandomStructure_peek(ds) = Ok(ds.items[1].val)
        /\ call.op = "remove" =>
              IF Len(pre.items) = 0
              THEN call.ret.tag = "Err" /\ ds = pre
              ELSE /\ call.ret.tag = "Ok"
                   /\ call.ret.val \in {pre.items[i].val : i \in 1..Len(pre.items)}
                   /\ Len(ds.items) = Len(pre.items) - 1
                   /\ Cardinality(Ids(pre.items) \ Ids(ds.items)) = 1

\* peek() and then at once remove() on a RandomStructure holding two distinct
\* values have returned two different values.
RandomPeekRemoveDisagreeWitness ==
    /\ ds.kind = "RandomStructure"
    /\ prev.op = "peek" /\ prev.ret.tag = "Ok"
    /\ call.op = "remove" /\ call.ret.tag = "Ok"
    /\ Cardinality({pre.items[i].val : i \in 1..Len(pre.items)}) >= 2
    /\ prev.ret.val # call.ret.val

----------------------------------------------------------------------------
(* count_elements(ds): one step per evaluation of the loop condition, with *)
(* the body of the iteration it admits; the last step returns count.       *)

NewCount(c) ==
    [fn |-> "count_elements", ds |-> c, ds0 |-> c, count |-> 0, pc |-> "loop",
     ret |-> None, removes |-> 0]

\* count_elements leaving the loop while one element is still held.
Mut_count_step_early(f) ==
    IF source_is_empty(f.ds) \/ size(f.ds) = 1
    THEN [f EXCEPT !.pc = "done", !.ret = Usize(f.count)]
    ELSE LET r == source_remove(f.ds)
         IN  [f EXCEPT !.ds = r.self, !.count = f.count + 1,
                       !.removes = f.removes + 1]

count_step(f) ==
    IF source_is_empty(f.ds)
    THEN [f EXCEPT !.pc = "done", !.ret = Usize(f.count)]
    ELSE LET r == source_remove(f.ds)
         IN  IF r.ret.tag = "Ok"
             THEN [f EXCEPT !.ds = r.self, !.count = f.count + 1,
                            !.removes = f.removes + 1]
             ELSE [f EXCEPT !.ds = r.self, !.pc = "done", !.ret = Usize(f.count),
                            !.removes = f.removes + 1]

InitCount ==
    /\ \E c \in Constructors, fill \in Fills : drain = NewCount(Filled(c, fill))
    /\ ds = Stack_new
    /\ call = [op |-> "new", ret |-> Unit]
    /\ prev = [op |-> "none", ret |-> Unit]
    /\ pre = ds
    /\ added = <<>>
    /\ removedVals = EmptyBag
    /\ removedIds = {}
    /\ pair = Unused
    /\ xfer = Unused
    /\ svc = Unused

CountStep ==
    /\ drain.pc = "loop"
    /\ drain' = count_step(drain)
    /\ UNCHANGED <<single, pair, xfer, svc>>

NextCount == CountStep

\* The call runs on one thread and nothing blocks it: a step that can be
\* taken is taken.
SpecCount == InitCount /\ [][NextCount]_vars /\ WF_vars(CountStep)

\* C20: count_elements returns the number of elements the container held on
\* entry (0 for an empty one) and leaves it empty, for each of the five
\* conforming variants and any contents; and every call returns: each
\* iteration removes one element, so the loop ends.
CountElementsCountsAndEmpties ==
    /\ [](drain.pc = "loop" =>
            /\ drain.ret = None
            /\ drain.count + size(drain.ds) = size(drain.ds0)
            /\ drain.removes = drain.count)
    /\ [](drain.pc = "done" =>
            /\ drain.ret = Usize(size(drain.ds0))
            /\ is_empty(drain.ds)
            /\ drain.ds.items = <<>>
            /\ drain.removes = size(drain.ds0))
    /\ <>(drain.pc = "done")

\* count_elements has returned 3 for a priority queue that held 3 elements,
\* two of them equal.
CountElementsCountsAndEmptiesWitness ==
    /\ drain.pc = "done"
    /\ drain.ds0.kind = "PriorityQueue"
    /\ Len(drain.ds0.items) = 3
    /\ drain.ds0.items[2].val = drain.ds0.items[3].val
    /\ drain.ds0.items[1].val # drain.ds0.items[2].val
    /\ drain.ret = Usize(3)
    /\ drain.ds.items = <<>>

\* count_elements has returned 0 for a container that was empty on entry.
CountElementsEmptyWitness ==
    /\ drain.pc = "done"
    /\ drain.ds0.items = <<>>
    /\ drain.ret = Usize(0)
    /\ drain.removes = 0

----------------------------------------------------------------------------
(* sum_elements(ds): total is an i32.  total += element overflows when the *)
(* sum leaves the i32 range: a build with overflow checks panics, one      *)
(* without them wraps modulo 2^32.  Both outcomes are kept.  The sums are  *)
(* computed without leaving the 32-bit range themselves.                  *)

I32_MAX == 2147483647

I32_MIN == -I32_MAX - 1

I32(n) == [tag |-> "i32", val |-> n]

\* The outcomes of a + b on i32.
i32_add(a, b) ==
    IF b > 0 /\ a > I32_MAX - b
    THEN {Panic, I32((a - I32_MAX - 1) + (b - I32_MAX - 1))}
    ELSE IF b < 0 /\ a < I32_MIN - b
         THEN {Panic, I32((a + I32_MAX + 1) + (b + I32_MAX + 1))}
         ELSE {I32(a + b)}

NewSum(c) ==
    [fn |-> "sum_elements", ds |-> c, ds0 |-> c, total |-> 0, pc |-> "loop",
     ret |-> None, removes |-> 0]

\* The frames one evaluation of the loop condition, with the iteration it
\* admits, can lead to.
sum_step(f) ==
    IF source_is_empty(f.ds)
    THEN {[f EXCEPT !.pc = "done", !.ret = I32(f.total)]}
    ELSE LET r == source_remove(f.ds)
         IN  IF r.ret.tag = "Ok"
             THEN {IF t = Panic
                   THEN [f EXCEPT !.ds = r.self, !.pc = "panicked", !.ret = Panic,
                                  !.removes = f.removes + 1]
                   ELSE [f EXCEPT !.ds = r.self, !.total = t.val,
                                  !.removes = f.removes + 1] :
                   t \in i32_add(f.total, r.ret.val)}
             ELSE {[f EXCEPT !.ds = r.self, !.pc = "done", !.ret = I32(f.total),
                             !.removes = f.removes + 1]}

\* The i32 values a summed container is filled with: the ends of the range,
\* the values next to 0, and the ones demonstrate_processors uses.
SumValues == {I32_MIN, -1, 1, I32_MAX}

SumFills ==
    UNION {[1..n -> SumValues] : n \in 0..MaxFill}
        \cup {SubSeq(<<10, 20, 30, 40, 50>>, 1, n) : n \in 0..DemoLen}

InitSum ==
    /\ \E c \in Constructors, fill \in SumFills : drain = NewSum(Filled(c, fill))
    /\ ds = Stack_new
    /\ call = [op |-> "new", ret |-> Unit]
    /\ prev = [op |-> "none", ret |-> Unit]
    /\ pre = ds
    /\ added = <<>>
    /\ removedVals = EmptyBag
    /\ removedIds = {}
    /\ pair = Unused
    /\ xfer = Unused
    /\ svc = Unused

SumStep ==
    /\ drain.pc = "loop"
    /\ drain' \in sum_step(drain)
    /\ UNCHANGED <<single, pair, xfer, svc>>

NextSum == SumStep

SpecSum == InitSum /\ [][NextSum]_vars

\* The exact sum of the values of v is the i32 r; the sum is taken on the
\* two halves of each value, 16 low bits and the rest, so that no
\* intermediate result is large.
RECURSIVE SumHigh(_)
SumHigh(v) == IF Len(v) = 0 THEN 0 ELSE (v[1].val \div 65536) + SumHigh(Tail(v))

RECURSIVE SumLow(_)
SumLow(v) == IF Len(v) = 0 THEN 0 ELSE (v[1].val % 65536) + SumLow(Tail(v))

IsExactSum(v, r) ==
    /\ r \div 65536 = SumHigh(v) + (SumLow(v) \div 65536)
    /\ r % 65536 = SumLow(v) % 65536

\* C21: sum_elements returns the sum of all elements the container held on
\* entry (0 for an empty container) and leaves the container empty, for every
\* contents of i32 values and whatever order the variant removes them in.
SumElementsReturnsSum ==
    (drain.fn = "sum_elements" /\ drain.pc # "loop") =>
        /\ drain.ret.tag = "i32"
        /\ IsExactSum(drain.ds0.items, drain.ret.val)
        /\ drain.ds.items = <<>>

\* The same for contents whose sum stays in the i32 range in every order of
\* removal: no addition overflows.
SumElementsReturnsSumInRange ==
    (/\ drain.fn = "sum_elements" /\ drain.pc # "loop"
     /\ \A i \in 1..Len(drain.ds0.items) :
           drain.ds0.items[i].val \in -65536..65536) =>
        /\ drain.ret.tag = "i32"
        /\ IsExactSum(drain.ds0.items, drain.ret.val)
        /\ drain.ds.items = <<>>

\* sum_elements on a queue that held 2147483647, 1 and -1, whose sum is
\* 2147483647, has panicked at its second addition.
SumElementsOverflowWitness ==
    /\ drain.fn = "sum_elements"
    /\ drain.ds0.kind = "Queue"
    /\ Vals(drain.ds0.items) = <<I32_MAX, 1, -1>>
    /\ drain.ret = Panic

----------------------------------------------------------------------------
(* reverse_data_structure(ds) of the violation file.  Its frame: ds, the   *)
(* vector temp, pc ("drain": the while loop, "refill": the for loop over   *)
(* temp, "done"), the position j of the for loop; ds0 is ds on entry,      *)
(* broke the error of the remove() that left the while loop, lied whether  *)
(* is_empty() has answered false on an empty structure, refused whether an *)
(* add() left the for loop.                                                *)

Violators ==
    {CorrectStack_new, MislabeledQueue_new, RandomStructure_new,
     InconsistentStructure_new, RestrictiveStructure_new,
     SideEffectStructure_new, WeakStructure_new}

\* The structure after the calls add(vs[1]), ..., add(vs[n]); add has one
\* outcome in every implementation.
RECURSIVE FilledV(_, _)
FilledV(c, vs) ==
    IF Len(vs) = 0
    THEN c
    ELSE LET before == FilledV(c, SubSeq(vs, 1, Len(vs) - 1))
         IN  (CHOOSE o \in V_add(before, [val |-> vs[Len(vs)], id |-> Len(vs)]) : TRUE).self

\* The add sequences that fill a structure: any values, up to MaxFill of
\* them, and 1, 2, 3 as demonstrate_broken_client_code does.
ReverseFills ==
    UNION {[1..n -> ViolationValues] : n \in 0..MaxFill} \cup {<<1, 2, 3>>}

NewReverse(c, n) ==
    [fn |-> "reverse_data_structure", ds |-> c, ds0 |-> c, temp |-> <<>>,
     pc |-> "drain", j |-> 0, nadds |-> n, broke |-> None, lied |-> FALSE,
     refused |-> FALSE]

\* reverse_data_structure going on with the while loop after a failed remove().
Mut_reverse_step_no_break(f) ==
    IF f.pc = "drain"
    THEN UNION {IF e
                THEN {[f EXCEPT !.pc = "refill"]}
                ELSE {IF o.ret.tag = "Ok"
                      THEN [f EXCEPT !.ds = o.self, !.temp = Append(f.temp, o.ret.val)]
                      ELSE [f EXCEPT !.ds = o.self] :
                      o \in V_remove(f.ds)} :
                e \in V_is_empty(f.ds)}
    ELSE IF f.j >= Len(f.temp)
         THEN {[f EXCEPT !.pc = "done"]}
         ELSE {IF o.ret.tag = "Err"
               THEN [f EXCEPT !.ds = o.self, !.pc = "done", !.refused = TRUE]
               ELSE [f EXCEPT !.ds = o.self, !.j = f.j + 1, !.nadds = f.nadds + 1] :
               o \in V_add(f.ds, [val |-> f.temp[f.j + 1], id |-> f.nadds + 1])}

\* The frames one step can lead to: one evaluation of the while condition
\* with the iteration it admits, or one iteration of the for loop.
reverse_step(f) ==
    IF f.pc = "drain"
    THEN UNION {IF e
                THEN {[f EXCEPT !.pc = "refill"]}
                ELSE {IF o.ret.tag = "Ok"
                      THEN [f EXCEPT !.ds = o.self, !.temp = Append(f.temp, o.ret.val),
                                     !.lied = f.lied \/ Len(f.ds.items) = 0]
                      ELSE [f EXCEPT !.ds = o.self, !.pc = "refill", !.broke = o.ret,
                                     !.lied = f.lied \/ Len(f.ds.items) = 0] :
                      o \in V_remove(f.ds)} :
                e \in V_is_empty(f.ds)}
    ELSE IF f.j >= Len(f.temp)
         THEN {[f EXCEPT !.pc = "done"]}
         ELSE {IF o.ret.tag = "Err"
               THEN [f EXCEPT !.ds = o.self, !.pc = "done", !.refused = TRUE]
               ELSE [f EXCEPT !.ds = o.self, !.j = f.j + 1, !.nadds = f.nadds + 1] :
               o \in V_add(f.ds, [val |-> f.temp[f.j + 1], id |-> f.nadds + 1])}

InitReverse ==
    /\ \E c \in Violators, fill \in ReverseFills :
          drain = NewReverse(FilledV(c, fill), Len(fill))
    /\ ds = Stack_new
    /\ call = [op |-> "new", ret |-> Unit]
    /\ prev = [op |-> "none", ret |-> Unit]
    /\ pre = ds
    /\ added = <<>>
    /\ removedVals = EmptyBag
    /\ removedIds = {}
    /\ pair = Unused
    /\ xfer = Unused
    /\ svc = Unused

ReverseStep ==
    /\ drain.pc \in {"drain", "refill"}
    /\ drain' \in reverse_step(drain)
    /\ UNCHANGED <<single, pair, xfer, svc>>

NextReverse == ReverseStep

\* The call runs on one thread and nothing blocks it: a step that can be
\* taken is taken.
SpecReverse == InitReverse /\ [][NextReverse]_vars /\ WF_vars(ReverseStep)

Reversed(s) == [i \in 1..Len(s) |-> s[Len(s) + 1 - i]]

\* C22: reverse_data_structure leaves a CorrectStack holding the same
\* elements in exactly the reverse order, whatever it held, and leaves a
\* MislabeledQueue in its original order: it reverses only a proper stack.
ReverseReversesOnlyStack ==
    (drain.fn = "reverse_data_structure" /\ drain.pc = "done") =>
        /\ drain.ds0.kind = "CorrectStack" =>
              /\ Vals(drain.ds.items) = Reversed(Vals(drain.ds0.items))
              /\ drain.temp = Vals(drain.ds.items)
        /\ drain.ds0.kind = "MislabeledQueue" =>
              /\ Vals(drain.ds.items) = Vals(drain.ds0.items)
              /\ drain.temp = Vals(drain.ds0.items)
        /\ drain.ds0.kind \in {"CorrectStack", "MislabeledQueue"} =>
              /\ drain.broke = None
              /\ ~drain.refused

\* reverse_data_structure has returned on a CorrectStack filled with 1, 2, 3,
\* which now holds 3, 2, 1.
ReverseReversesOnlyStackWitness ==
    /\ drain.fn = "reverse_data_structure" /\ drain.pc = "done"
    /\ drain.ds0.kind = "CorrectStack"
    /\ Vals(drain.ds0.items) = <<1, 2, 3>>
    /\ Vals(drain.ds.items) = <<3, 2, 1>>

\* The same call on a MislabeledQueue filled with 1, 2, 3 has left 1, 2, 3.
ReverseKeepsQueueOrderWitness ==
    /\ drain.fn = "reverse_data_structure" /\ drain.pc = "done"
    /\ drain.ds0.kind = "MislabeledQueue"
    /\ Vals(drain.ds0.items) = <<1, 2, 3>>
    /\ Vals(drain.ds.items) = <<1, 2, 3>>

----------------------------------------------------------------------------
(* A RestrictiveStructure and any interleaving of trait calls on it.       *)

InitRestrictive == InitViolation(RestrictiveStructure_new)

NextRestrictive ==
    \/ \E element \in RestrictiveValues : Len(added) < MaxRAdds /\ VAdd(element)
    \/ VRemove
    \/ VPeek
    \/ VSize
    \/ VIsEmpty

SpecRestrictive == InitRestrictive /\ [][NextRestrictive]_vars

\* C23: RestrictiveStructure.add(e) returns an error and leaves the contents
\* and the size unchanged when e < 0 or e > 100, and appends e and returns Ok
\* for every e with 0 <= e <= 100.
RestrictiveAddAcceptsZeroToHundred ==
    (ds.kind = "RestrictiveStructure" /\ call.op = "add") =>
        IF call.arg < 0 \/ call.arg > 100
        THEN /\ call.ret.tag = "Err"
             /\ ds = pre
             /\ RestrictiveStructure_size(ds) = RestrictiveStructure_size(pre)
        ELSE /\ call.ret = Ok(Unit)
             /\ ds.items = Append(pre.items, [val |-> call.arg, id |-> Len(added)])
             /\ RestrictiveStructure_size(ds) = RestrictiveStructure_size(pre) + 1

\* add(100) has succeeded and then add(101) has failed, leaving the one
\* element in place.
RestrictiveAddAcceptsZeroToHundredWitness ==
    /\ ds.kind = "RestrictiveStructure"
    /\ prev.op = "add" /\ prev.arg = 100 /\ prev.ret = Ok(Unit)
    /\ call.op = "add" /\ call.arg = 101 /\ call.ret.tag = "Err"
    /\ Vals(ds.items) = <<100>>

----------------------------------------------------------------------------
\* C27: once a RestrictiveStructure holds an element it never becomes empty
\* again: every call made on a structure holding at least one element leaves
\* at least one; remove() on exactly one element fails with 'Cannot remove
\* last element!' and leaves it in place; size() then returns at least 1 and
\* is_empty() returns false.
RestrictiveNeverEmptyAgain ==
    [][(ds.kind = "RestrictiveStructure" /\ Len(ds.items) >= 1) =>
          /\ Len(ds'.items) >= 1
          /\ (call'.op = "remove" /\ Len(ds.items) = 1) =>
                /\ call'.ret = Err("Cannot remove last element!")
                /\ ds' = ds
          /\ call'.op = "size" => call'.ret.val >= 1
          /\ call'.op = "is_empty" => call'.ret = Bool(FALSE)]_vars

\* A remove() has taken the second of two elements and the next remove() has
\* been refused, the last element staying in place.
RestrictiveNeverEmptyAgainWitness ==
    /\ ds.kind = "RestrictiveStructure"
    /\ prev.op = "remove" /\ prev.ret.tag = "Ok"
    /\ call.op = "remove" /\ call.ret = Err("Cannot remove last element!")
    /\ Len(ds.items) = 1
    /\ ds = pre

----------------------------------------------------------------------------
\* C28: reverse_data_structure returns for each of the seven implementations
\* of the violation file and any initial contents: its while loop ends when
\* is_empty() answers true or at the first remove() that fails, having made
\* at most one successful remove per element held, also when remove()
\* refuses the last element or size() reports one too many; the for loop
\* makes at most one add per removed element.
ReverseTerminates ==
    /\ [](drain.fn = "reverse_data_structure" =>
            /\ Len(drain.temp) + Len(drain.ds.items) <= Len(drain.ds0.items)
                   \/ drain.pc # "drain"
            /\ Len(drain.temp) <= Len(drain.ds0.items)
            /\ drain.j <= Len(drain.temp)
            /\ drain.broke # None => drain.pc # "drain")
    /\ <>(drain.pc = "done")

\* The call has returned on a RestrictiveStructure whose remove() refused the
\* last element: the while loop ended on that error with one element held.
ReverseTerminatesWitness ==
    /\ drain.fn = "reverse_data_structure" /\ drain.pc = "done"
    /\ drain.ds0.kind = "RestrictiveStructure"
    /\ Len(drain.ds0.items) = 3
    /\ drain.broke = Err("Cannot remove last element!")
    /\ Len(drain.temp) = 2
    /\ Len(drain.ds.items) = 3

\* The call has returned on a WeakStructure whose size() reported one too
\* many on the emptied structure: is_empty() answered false and the remove()
\* that followed failed.
ReverseTerminatesOverReportWitness ==
    /\ drain.fn = "reverse_data_structure" /\ drain.pc = "done"
    /\ drain.ds0.kind = "WeakStructure"
    /\ Len(drain.ds0.items) = 2
    /\ drain.lied
    /\ drain.broke = Err("Structure is empty")

----------------------------------------------------------------------------
\* C25: with any of the five conforming variants as source, transfer_elements
\* never returns Err: it returns Ok(()) for every count and every contents of
\* source and target, an empty source and count 0 included, since no remove()
\* it makes fails: each is made on a source that is_empty() found not empty.
TransferNeverFailsOnConforming ==
    /\ xfer.failed = None
    /\ xfer.removes = xfer.adds
    /\ xfer.removes <= Len(xfer.source0.items)
    /\ xfer.pc = "done" => xfer.ret = Ok(Unit)
    /\ xfer.pc = "loop" => xfer.ret = None

\* transfer_elements has returned Ok(()) on an empty source with a count
\* above 0, having made no remove.
TransferNeverFailsOnConformingWitness ==
    /\ xfer.pc = "done"
    /\ xfer.source0.items = <<>>
    /\ xfer.count > 0
    /\ xfer.ret = Ok(Unit)
    /\ xfer.removes = 0

----------------------------------------------------------------------------
(* A Deque and the container it is compared with (a Stack for Back mode, a *)
(* Queue for Front mode), driven by the same sequence of trait calls.      *)
(* pair holds the two containers, the number of adds made, the last call   *)
(* and what it returned on each.                                           *)

InitLockstep ==
    /\ \E p \in {<<Deque_new("Back"), Stack_new>>, <<Deque_new("Front"), Queue_new>>} :
          pair = [a |-> p[1], b |-> p[2], n |-> 0, op |-> "new",
                  retA |-> Unit, retB |-> Unit]
    /\ ds = Stack_new
    /\ call = [op |-> "new", ret |-> Unit]
    /\ prev = [op |-> "none", ret |-> Unit]
    /\ pre = ds
    /\ added = <<>>
    /\ removedVals = EmptyBag
    /\ removedIds = {}
    /\ xfer = Unused
    /\ drain = Unused
    /\ svc = Unused

LockAdd(element) ==
    /\ pair.n < MaxPairAdds
    /\ pair' = [pair EXCEPT !.a = add(pair.a, [val |-> element, id |-> pair.n + 1]),
                            !.b = add(pair.b, [val |-> element, id |-> pair.n + 1]),
                            !.n = pair.n + 1,
                            !.op = "add", !.retA = Unit, !.retB = Unit]
    /\ UNCHANGED <<single, xfer, drain, svc>>

LockRemove ==
    /\ pair' = [pair EXCEPT !.a = remove(pair.a).self,
                            !.b = remove(pair.b).self,
                            !.op = "remove",
                            !.retA = remove(pair.a).ret,
                            !.retB = remove(pair.b).ret]
    /\ UNCHANGED <<single, xfer, drain, svc>>

LockPeek ==
    /\ pair' = [pair EXCEPT !.op = "peek",
                            !.retA = peek(pair.a), !.retB = peek(pair.b)]
    /\ UNCHANGED <<single, xfer, drain, svc>>

LockSize ==
    /\ pair' = [pair EXCEPT !.op = "size",
                            !.retA = Usize(size(pair.a)),
                            !.retB = Usize(size(pair.b))]
    /\ UNCHANGED <<single, xfer, drain, svc>>

NextLockstep ==
    \/ \E element \in Values : LockAdd(element)
    \/ LockRemove
    \/ LockPeek
    \/ LockSize

SpecLockstep == InitLockstep /\ [][NextLockstep]_vars

\* The same outcome, the text of an error message aside.
SameOutcome(x, y) ==
    /\ x.tag = y.tag
    /\ x.tag # "Err" => x = y

\* C26: after the same sequence of add, remove, peek and size calls, a Deque
\* in Back mode has returned what a Stack returns, and a Deque in Front mode
\* what a Queue returns: the same values, sizes and successes or failures,
\* the text of the error messages aside.
DequeEquivalentToStackOrQueue ==
    /\ pair.a.kind = "Deque"
    /\ pair.b.kind = (IF pair.a.mode = "Back" THEN "Stack" ELSE "Queue")
    /\ SameOutcome(pair.retA, pair.retB)
    /\ pair.op \in {"remove", "peek"} => pair.retA.tag \in {"Ok", "Err"}

\* A Deque in Back mode and a Stack have both returned the last added of
\* three values from remove(), the first added being another value.
DequeEquivalentToStackOrQueueWitness ==
    /\ pair.a.mode = "Back"
    /\ pair.n = 3
    /\ pair.op = "remove"
    /\ pair.retA.tag = "Ok" /\ pair.retB = pair.retA
    /\ Len(pair.a.items) = 2
    /\ pair.a.items[1].val # pair.retA.val
    /\ pair.a.items[2].id = 2

\* A Deque in Front mode and a Queue have both returned the first added of
\* three values from remove().
DequeFrontEquivalentToQueueWitness ==
    /\ pair.a.mode = "Front"
    /\ pair.n = 3
    /\ pair.op = "remove"
    /\ pair.retA.tag = "Ok" /\ pair.retB = pair.retA
    /\ Ids(pair.a.items) = {2, 3}
    /\ pair.a.items[2].val # pair.retA.val

----------------------------------------------------------------------------
(* src/rust/single-responsibility/correct_user_service.rs:                 *)
(* CorrectUserService::create_user.  A string is the sequence of its       *)
(* characters.  The service is generic in its collaborators, so what       *)
(* save, send_welcome_email and send_push_notification return is any value *)
(* of their result type; notification_service is an Option.  effects is    *)
(* the sequence of calls create_user makes on its collaborators.           *)

Whitespace == {" "}

Alphanumeric == {"a", "b", "c", "1"}

\* Regex ^[^\s@]+@[^\s@]+\.[^\s@]+$ : no whitespace, one @ with something
\* before it, and after it a dot with something on both sides.
validate_email(email) ==
    \E i \in 1..Len(email) : \E k \in 1..Len(email) :
        /\ email[i] = "@"
        /\ email[k] = "."
        /\ 1 < i /\ i + 1 < k /\ k < Len(email)
        /\ \A m \in 1..Len(email) :
              m # i => email[m] \notin Whitespace \cup {"@"}

validate_username(username) ==
    /\ Len(username) >= 3
    /\ Len(username) <= 20
    /\ \A m \in 1..Len(username) : username[m] \in Alphanumeric \cup {"_"}

validate_user(user) == validate_email(user.email) /\ validate_username(user.username)

User_new(username, email) == [username |-> username, email |-> email]

\* create_user returning the error of a failed welcome email.
Mut_create_user_email_fatal(username, email, env) ==
    LET user == User_new(username, email)
    IN  IF ~validate_user(user)
        THEN [ret |-> Err(<<"Invalid user data", username, email>>),
              effects |-> <<<<"log_error", "User creation failed">>>>]
        ELSE IF env.save.tag = "Err"
        THEN [ret |-> env.save,
              effects |-> <<<<"save", user>>, <<"log_error", "Failed to save user">>>>]
        ELSE IF env.welcome.tag = "Err"
        THEN [ret |-> env.welcome,
              effects |-> <<<<"save", user>>, <<"send_welcome_email", email>>,
                            <<"log_error", "Failed to send welcome email">>>>]
        ELSE [ret |-> Ok(user),
              effects |->
                  <<<<"save", user>>, <<"send_welcome_email", email>>,
                    <<"log_user_activity", username>>,
                    <<"track_user_registration", username>>>>
                  \o (IF env.notification = None
                      THEN <<>>
                      ELSE <<<<"send_push_notification", username>>>>
                           \o (IF env.notification.val.tag = "Err"
                               THEN <<<<"log_error", "Failed to send push notification">>>>
                               ELSE <<>>))]

\* What create_user returns and the calls it makes, given what its
\* collaborators return.
create_user(username, email, env) ==
    LET user == User_new(username, email)
    IN  IF ~validate_user(user)
        THEN [ret |-> Err(<<"Invalid user data", username, email>>),
              effects |-> <<<<"log_error", "User creation failed">>>>]
        ELSE IF env.save.tag = "Err"
        THEN [ret |-> env.save,
              effects |-> <<<<"save", user>>, <<"log_error", "Failed to save user">>>>]
        ELSE [ret |-> Ok(user),
              effects |->
                  <<<<"save", user>>, <<"send_welcome_email", email>>>>
                  \o (IF env.welcome.tag = "Err"
                      THEN <<<<"log_error", "Failed to send welcome email">>>>
                      ELSE <<>>)
                  \o <<<<"log_user_activity", username>>,
                       <<"track_user_registration", username>>>>
                  \o (IF env.notification = None
                      THEN <<>>
                      ELSE <<<<"send_push_notification", username>>>>
                           \o (IF env.notification.val.tag = "Err"
                               THEN <<<<"log_error", "Failed to send push notification">>>>
                               ELSE <<>>))]

Usernames ==
    {<<"a", "b">>, <<"a", "b", "c">>, <<"a", "_", "1">>, <<"a", " ", "b">>,
     <<"a", "@", "b">>, [m \in 1..20 |-> "a"], [m \in 1..21 |-> "a"]}

Emails ==
    {<<"a", "@", "b", ".", "c">>, <<"a", ".", "b", "@", "b", ".", "c", ".", "c">>,
     <<"a", "@", ".", ".", "c">>, <<"a", "b">>, <<"a", "@", "b">>,
     <<"@", "b", ".", "c">>, <<"a", "@", ".", "c">>, <<"a", "@", "b", ".">>,
     <<"a", " ", "@", "b", ".", "c">>, <<"a", "@", "b", "@", "c", ".", "c">>, <<>>}

\* Result<bool, String> of a collaborator.
Outcomes == {Ok(TRUE), Ok(FALSE), Err("failed")}

Environments ==
    [save : Outcomes, welcome : Outcomes,
     notification : {None} \cup {Some(o) : o \in Outcomes}]

InitService ==
    /\ svc = [pc |-> "new"]
    /\ ds = Stack_new
    /\ call = [op |-> "new", ret |-> Unit]
    /\ prev = [op |-> "none", ret |-> Unit]
    /\ pre = ds
    /\ added = <<>>
    /\ removedVals = EmptyBag
    /\ removedIds = {}
    /\ pair = Unused
    /\ xfer = Unused
    /\ drain = Unused

\* One call; the service keeps no state between calls (create_user takes
\* &self and changes no field), so a behaviour holds a single call.
CreateUser(username, email, env) ==
    /\ svc.pc = "new"
    /\ svc' = [pc |-> "returned", username |-> username, email |-> email,
               env |-> env,
               ret |-> create_user(username, email, env).ret,
               effects |-> create_user(username, email, env).effects]
    /\ UNCHANGED <<single, pair, xfer, drain>>

NextService ==
    \E username \in Usernames, email \in Emails, env \in Environments :
        CreateUser(username, email, env)

SpecService == InitService /\ [][NextService]_vars

Called(effects) == {effects[m][1] : m \in 1..Len(effects)}

\* C24: create_user returns Err and makes no repository save, sends no
\* welcome email, tracks no analytics event and sends no push notification
\* when the validation of the username and email fails (it only logs an
\* error); and after a successful save it returns Ok whether or not the
\* welcome email or the push notification fails.
CreateUserValidatesBeforeEffects ==
    svc.pc = "returned" =>
        /\ ~(validate_username(svc.username) /\ validate_email(svc.email)) =>
              /\ svc.ret.tag = "Err"
              /\ Called(svc.effects) = {"log_error"}
              /\ Len(svc.effects) = 1
        /\ (/\ validate_username(svc.username) /\ validate_email(svc.email)
            /\ svc.env.save.tag = "Ok") =>
              /\ svc.ret = Ok(User_new(svc.username, svc.email))
              /\ {"save", "send_welcome_email", "log_user_activity",
                  "track_user_registration"} \subseteq Called(svc.effects)
              /\ ("send_push_notification" \in Called(svc.effects))
                    = (svc.env.notification # None)

\* create_user has returned Ok although the welcome email and the push
\* notification both failed after the save succeeded.
CreateUserValidatesBeforeEffectsWitness ==
    /\ svc.pc = "returned"
    /\ svc.env.save.tag = "Ok"
    /\ svc.env.welcome.tag = "Err"
    /\ svc.env.notification = Some(Err("failed"))
    /\ svc.ret.tag = "Ok"
    /\ Len(svc.effects) = 7

\* create_user has returned Err on a username of two characters with a valid
\* email, having only logged the error.
CreateUserInvalidWitness ==
    /\ svc.pc = "returned"
    /\ svc.username = <<"a", "b">>
    /\ validate_email(svc.email)
    /\ svc.ret.tag = "Err"
    /\ svc.effects = <<<<"log_error", "User creation failed">>>>

====
